---- MODULE Spec2Model ----
(***************************************************************************)
(* State-machine model of the RAG indexing tool: the vector store kept by  *)
(* ChromaManager, IndexingService (index_document, index_directory,        *)
(* delete_document), SearchService (search, clear_cache) and the LRUCache  *)
(* of utils/cache.py.  The services are synchronous and a call runs to     *)
(* completion, so an operation is one atomic action; where callers run     *)
(* concurrently the operation is modelled again in the steps that read or  *)
(* write the shared state.                                                 *)
(***************************************************************************)
EXTENDS Integers, Sequences, FiniteSets, TLC

VARIABLES
    store,          \* ChromaDB collection: the set of stored records
    uuid_counter,   \* number of uuid4() values drawn so far
    query_cache,    \* utils.cache._query_cache, an LRUCache
    embedding_cache, \* utils.cache._embedding_cache, an LRUCache
    lru,            \* an LRUCache instance exercised on its own
    hist,           \* history: the get/set/clear calls made on lru
    split,          \* one split_text call: its text, its TextSplitter, its result
    workers,        \* the index_document, delete_document or LRUCache call
                    \* each concurrent worker is in
    last            \* the call that ran last, with its outcome

vars == <<store, uuid_counter, query_cache, embedding_cache, lru, hist, split,
          workers, last>>

----------------------------------------------------------------------------
(* Bounds of the model *)

\* uuid4() is drawn at most this many times in a behaviour
MaxUuid == 3
\* the chunker emits at most this many chunks per document
MaxChunks == 2
\* at most this many calls are made on the lru instance in a behaviour
MaxOps == 4
\* and at most this many by concurrent workers running statement by statement
MaxCalls == 5
\* the lru instance is constructed with maxsize in 0..MaxCacheSize
MaxCacheSize == 2
\* split_text is given every text of up to this many characters
MaxTextLen == 4
\* with chunk_size in 1..MaxChunkSize and chunk_overlap, min_chunk_size in
\* 0..MaxChunkSize
MaxChunkSize == 3
\* and the texts of MarkedLen characters of which at most two are not
\* letters, with chunk_size MarkedChunkSize (its boundary window is 3 wide)
MarkedLen == 17
MarkedChunkSize == 15
\* and texts of the length of the documented splitting scenario
ScenarioLen == 2500

\* Python's None for an optional argument or an absent result
None == 0

\* file paths handed to the services
Paths == {"a.pdf", "b.txt"}
\* a file whose extension is not supported, met only when walking a directory
OtherFile == "c.bin"
\* None where a file_path is expected
NoPath == "None"
\* document ids are the uuid4() values, numbered in the order drawn
DocIds == 1..MaxUuid

----------------------------------------------------------------------------
(* core/document_processor.py *)

\* the files whose extension is in SUPPORTED_EXTENSIONS (.pdf, .txt, ...)
SUPPORTED_EXTENSIONS == {"a.pdf", "b.txt"}

\* one file met by os.walk: whether process_document returns a document for
\* it during the walk, and what its later index_document call will meet
DirEntry(file_path, walk_converted, env) ==
    [file_path |-> file_path, walk_converted |-> walk_converted, env |-> env]

\* DocumentProcessor.process_directory: the documents of the files that have
\* a supported extension and that process_document converted, in walk order
process_directory(listing) ==
    SelectSeq(listing, LAMBDA e : e.file_path \in SUPPORTED_EXTENSIONS
                                  /\ e.walk_converted)

----------------------------------------------------------------------------
(* core/text_splitter.py.  A text is a sequence of characters; positions    *)
(* are counted from 0 as in the code, so text[i] of the code is text[i + 1] *)
(* here.  Characters fall in the classes the code tells apart: a newline,   *)
(* another whitespace, sentence punctuation [.!?], anything else.           *)

Chars == {"x", " ", "\n", "."}
\* what str.strip() removes and \s matches
Whitespace == {" ", "\n"}
\* [.!?]
Punct == {"."}

Min(a, b) == IF a < b THEN a ELSE b
Max(a, b) == IF a > b THEN a ELSE b

\* text[a:b]
slice(text, a, b) == SubSeq(text, a + 1, b)

\* the least and the greatest member of a set of integers
least(S) == CHOOSE i \in S : \A j \in S : i <= j
greatest(S) == 0 - least({0 - i : i \in S})

\* str.strip(): the text without its leading and trailing whitespace
strip(s) ==
    LET solid == {i \in 1..Len(s) : s[i] \notin Whitespace} IN
    IF solid = {} THEN <<>> ELSE SubSeq(s, least(solid), greatest(solid))

\* the offset of the first character at or after offset k that is not of
\* the class, or len(s): where a greedy + stops
run_end(s, k, class) ==
    LET out == {j \in k..(Len(s) - 1) : s[j + 1] \notin class} IN
    IF out = {} THEN Len(s) ELSE least(out)

\* no match of the pattern
NoMatch == -1

\* list(self.sentence_endings.finditer(s))[-1].end() for the pattern
\* ([.!?]\s+|\.\n+|\n\n+), or NoMatch.  A match of the first alternative
\* starts at every punctuation character that whitespace follows and runs to
\* the end of that whitespace; the second alternative can only match where
\* the first already has; a match of the third starts in a run of newlines
\* that no match of the first has taken, and runs to the end of the newlines
last_match_end(s) ==
    LET punct_starts == {k \in 0..(Len(s) - 2) :
                            s[k + 1] \in Punct /\ s[k + 2] \in Whitespace}
        taken(k) == \E p \in punct_starts :
                        p < k /\ \A j \in (p + 1)..k : s[j + 1] \in Whitespace
        newline_starts == {k \in 0..(Len(s) - 2) :
                              s[k + 1] = "\n" /\ s[k + 2] = "\n" /\ ~taken(k)}
        starts == punct_starts \cup newline_starts
    IN  IF starts = {} THEN NoMatch
        ELSE LET k == greatest(starts) IN
             IF k \in punct_starts THEN run_end(s, k + 1, Whitespace)
             ELSE run_end(s, k, {"\n"})

\* config/settings.py: the sizes IndexingService builds its TextSplitter with
CHUNK_SIZE == 1000
CHUNK_OVERLAP == 200
MIN_CHUNK_SIZE == 500

\* TextSplitter.__init__
TextSplitter(chunk_size, chunk_overlap, min_chunk_size) ==
    [chunk_size |-> chunk_size, chunk_overlap |-> chunk_overlap,
     min_chunk_size |-> min_chunk_size]

\* end_pos of the window that starts at current_pos
end_pos_of(text, cfg, current_pos) ==
    LET hard == Min(current_pos + cfg.chunk_size, Len(text)) IN
    IF hard < Len(text)
    THEN LET search_start == Max(current_pos, hard - (cfg.chunk_size \div 5))
             e == last_match_end(slice(text, search_start, hard))
         IN  IF e # NoMatch THEN search_start + e ELSE hard
    ELSE hard

\* an advance that forgets the overlap
next_pos_no_overlap(current_pos, end_pos, cfg) == end_pos

\* current_pos after the window: moved back by the overlap, at least one on
next_pos(current_pos, end_pos, cfg) ==
    LET moved == Max(current_pos + 1, end_pos - cfg.chunk_overlap) IN
    IF moved >= end_pos THEN end_pos ELSE moved

\* an iteration that counts the windows it skips into chunk_index
split_iteration_counting(text, cfg, st) ==
    IF st.current_pos >= Len(text) THEN st
    ELSE
    LET end_pos == end_pos_of(text, cfg, st.current_pos)
        chunk_text == strip(slice(text, st.current_pos, end_pos))
        emit == Len(chunk_text) >= cfg.min_chunk_size \/ st.chunk_index = 0
        chunk_data == [text |-> chunk_text, chunk_index |-> st.chunk_index,
                       start_char |-> st.current_pos, end_char |-> end_pos,
                       char_count |-> Len(chunk_text)]
        moved == next_pos(st.current_pos, end_pos, cfg)
    IN  [current_pos |-> moved,
         chunk_index |-> st.chunk_index + 1,
         chunks |-> IF emit THEN Append(st.chunks, chunk_data) ELSE st.chunks,
         windows |-> Append(st.windows, [current_pos |-> st.current_pos,
                                         end_pos |-> end_pos, moved |-> moved])]

\* one iteration of the while loop of split_text on the loop's variables,
\* with the window of every iteration recorded; the loop is over once
\* current_pos >= len(text)
split_iteration(text, cfg, st) ==
    IF st.current_pos >= Len(text) THEN st
    ELSE
    LET end_pos == end_pos_of(text, cfg, st.current_pos)
        chunk_text == strip(slice(text, st.current_pos, end_pos))
        emit == Len(chunk_text) >= cfg.min_chunk_size \/ st.chunk_index = 0
        chunk_data == [text |-> chunk_text, chunk_index |-> st.chunk_index,
                       start_char |-> st.current_pos, end_char |-> end_pos,
                       char_count |-> Len(chunk_text)]
        moved == next_pos(st.current_pos, end_pos, cfg)
    IN  [current_pos |-> moved,
         chunk_index |-> IF emit THEN st.chunk_index + 1 ELSE st.chunk_index,
         chunks |-> IF emit THEN Append(st.chunks, chunk_data) ELSE st.chunks,
         windows |-> Append(st.windows, [current_pos |-> st.current_pos,
                                         end_pos |-> end_pos, moved |-> moved])]

\* up to n iterations in a row, as many as the loop makes
RECURSIVE iterate(_, _, _, _)
iterate(text, cfg, st, n) ==
    IF n = 0 THEN st
    ELSE IF n = 1 THEN split_iteration(text, cfg, st)
    ELSE LET half == iterate(text, cfg, st, n \div 2) IN
         IF half.current_pos >= Len(text) THEN half
         ELSE iterate(text, cfg, half, n - (n \div 2))

\* the while loop of split_text, from current_pos = 0: current_pos grows in
\* every iteration, so len(text) iterations reach the end of the loop
split_loop(text, cfg) ==
    iterate(text, cfg, [current_pos |-> 0, chunk_index |-> 0,
                        chunks |-> <<>>, windows |-> <<>>], Len(text))

\* a split of the text as given, not trimmed first
split_run_untrimmed(raw, cfg) ==
    IF strip(raw) = <<>> THEN [chunks |-> <<>>, windows |-> <<>>]
    ELSE IF Len(raw) <= cfg.chunk_size
    THEN [chunks |-> <<[text |-> raw, chunk_index |-> 0, start_char |-> 0,
                        end_char |-> Len(raw), char_count |-> Len(raw)]>>,
          windows |-> <<>>]
    ELSE LET st == split_loop(raw, cfg)
         IN  [chunks |-> st.chunks, windows |-> st.windows]

\* TextSplitter.split_text(text): chunks and loop iterations
split_run(raw, cfg) ==
    LET text == strip(raw) IN
    IF text = <<>> THEN [chunks |-> <<>>, windows |-> <<>>]
    ELSE IF Len(text) <= cfg.chunk_size
    THEN [chunks |-> <<[text |-> text, chunk_index |-> 0, start_char |-> 0,
                        end_char |-> Len(text), char_count |-> Len(text)]>>,
          windows |-> <<>>]
    ELSE LET st == split_loop(text, cfg)
         IN  [chunks |-> st.chunks, windows |-> st.windows]

\* TextSplitter.split_text(text): the list returned
split_text(raw, cfg) == split_run(raw, cfg).chunks

----------------------------------------------------------------------------
(* database/chroma_manager.py: the collection and its primitives *)

\* the id of chunk i of a document: f"{document_id}_chunk_{i}"
chunk_id(document_id, i) == <<document_id, "_chunk_", i>>

\* a count() that answers 0 whatever the collection holds
count_zero(st, backend_raises) == 0

\* collection.count(); ChromaManager.count returns 0 when the backend raises
count(st, backend_raises) == IF backend_raises THEN 0 ELSE Cardinality(st)

\* the records matching a where-filter {key: value}
matching(st, key, value) ==
    {r \in st : IF key = "document_id" THEN r.document_id = value
                                         ELSE r.file_path = value}

\* a delete that removes nothing
delete_where_noop(st, key, value) == st

\* ChromaManager.delete(where={key: value}); no match is a no-op
delete_where(st, key, value) == st \ matching(st, key, value)

\* ChromaManager.add_documents: collection.add ignores an id already stored
add_documents(st, records) ==
    st \cup {r \in records : \A s \in st : s.id # r.id}

\* collection.get(limit): the records in the backend's listing order, the
\* order they were added in, cut to the first limit of them when a limit is
\* passed
RECURSIVE listed(_)
listed(rs) ==
    IF rs = {} THEN <<>>
    ELSE LET first == CHOOSE r \in rs : \A o \in rs :
                          \/ r.call < o.call
                          \/ r.call = o.call /\ r.chunk_index <= o.chunk_index
         IN  <<first>> \o listed(rs \ {first})

\* limit=None, offset=None
NoLimit == -1

\* Python's truth value of an Optional[int]: None and 0 are false
truthy(n) == n # NoLimit /\ n # 0

\* seq[start:end] for 0 <= start
pyslice(seq, start, end) == SubSeq(seq, start + 1, Min(end, Len(seq)))

collection_get(st, limit) ==
    LET all == listed(st) IN
    IF limit = NoLimit THEN all ELSE pyslice(all, 0, limit)

\* the metadata, the document and the id of a record as the collection
\* returns them
metadata_of(r) ==
    [document_id |-> r.document_id, file_path |-> r.file_path,
     chunk_index |-> r.chunk_index]
document_of(r) == <<"text", r.id>>
results_of(rs) ==
    [ids |-> [i \in 1..Len(rs) |-> rs[i].id],
     documents |-> [i \in 1..Len(rs) |-> document_of(rs[i])],
     metadatas |-> [i \in 1..Len(rs) |-> metadata_of(rs[i])]]

\* a grouping that keeps the records without a document_id
RECURSIVE group_all(_, _, _)
group_all(rs, i, documents_map) ==
    IF i > Len(rs) THEN documents_map
    ELSE
    LET doc_id == rs[i].document_id
        known == {k \in 1..Len(documents_map) : documents_map[k].document_id = doc_id}
        entered == IF known = {}
                   THEN Append(documents_map,
                               [document_id |-> doc_id, file_path |-> rs[i].file_path,
                                chunks_count |-> 0, chunk_ids |-> <<>>])
                   ELSE documents_map
        k == CHOOSE j \in 1..Len(entered) : entered[j].document_id = doc_id
    IN  group_all(rs, i + 1,
              [entered EXCEPT ![k].chunks_count = @ + 1,
                              ![k].chunk_ids = Append(@, rs[i].id)])

\* the loop of get_unique_documents over the listed records from the i-th
\* on; documents_map is the dict, kept as the list of its values in
\* insertion order
RECURSIVE group(_, _, _)
group(rs, i, documents_map) ==
    IF i > Len(rs) THEN documents_map
    ELSE
    LET doc_id == rs[i].document_id IN
    IF doc_id = None THEN group(rs, i + 1, documents_map)
    ELSE
    LET known == {k \in 1..Len(documents_map) : documents_map[k].document_id = doc_id}
        entered == IF known = {}
                   THEN Append(documents_map,
                               [document_id |-> doc_id, file_path |-> rs[i].file_path,
                                chunks_count |-> 0, chunk_ids |-> <<>>])
                   ELSE documents_map
        k == CHOOSE j \in 1..Len(entered) : entered[j].document_id = doc_id
    IN  group(rs, i + 1,
              [entered EXCEPT ![k].chunks_count = @ + 1,
                              ![k].chunk_ids = Append(@, rs[i].id)])

\* ChromaManager.get_unique_documents
get_unique_documents(st) == group(collection_get(st, NoLimit), 1, <<>>)

----------------------------------------------------------------------------
(* What the collaborators of one index_document call do: whether the file  *)
(* exists, whether the converter returns a document, how many chunks the   *)
(* chunker emits, whether encode_chunks and collection.add return.  Only   *)
(* the first failure of a call matters, so the later fields of a failing   *)
(* call are fixed.                                                         *)

Env(exists, converted, nchunks, embed_ok, add_ok) ==
    [exists |-> exists, converted |-> converted, nchunks |-> nchunks,
     embed_ok |-> embed_ok, add_ok |-> add_ok]

Envs ==
    {Env(FALSE, FALSE, 0, FALSE, FALSE),
     Env(TRUE, FALSE, 0, FALSE, FALSE),
     Env(TRUE, TRUE, 0, FALSE, FALSE),
     Env(TRUE, TRUE, 1, FALSE, FALSE),
     Env(TRUE, TRUE, 1, TRUE, FALSE)}
    \cup {Env(TRUE, TRUE, n, TRUE, TRUE) : n \in 1..MaxChunks}

----------------------------------------------------------------------------
(* services/indexing_service.py *)

\* an id generator that hands out one value over and over
uuid4_fixed(counter) == 1

\* str(uuid.uuid4()): a value never drawn before (the n-th draw is n)
uuid4(counter) == counter + 1

\* TextSplitter.split_document as index_document uses it: the chunks, each
\* with the chunk_index the chunker gave it (0, 1, ... in emission order)
split_document(env) == [k \in 1..env.nchunks |-> [chunk_index |-> k - 1]]

\* the outcome of a call that raised before returning
Raised(st, counter, exception, message) ==
    [store |-> st, uuid_counter |-> counter, raised |-> exception,
     message |-> message, document_id |-> None, chunks_count |-> 0]

\* an index_document that deletes the old records before it creates the
\* embeddings
index_document_eager(st, counter, file_path, overwrite, env) ==
    IF ~env.exists
    THEN Raised(st, counter, "FileNotFoundError", "File not found")
    ELSE IF ~env.converted
    THEN Raised(st, counter, "ValueError", "Failed to process document")
    ELSE IF env.nchunks = 0
    THEN Raised(st, counter, "ValueError", "Failed to split document into chunks")
    ELSE
    LET cleared == IF overwrite
                   THEN delete_where(st, "file_path", file_path)
                   ELSE st
        document_id == uuid4(counter)
        records == {[id |-> chunk_id(document_id, i), document_id |-> document_id,
                     file_path |-> file_path, chunk_index |-> i,
                     call |-> counter + 1] : i \in 0..(env.nchunks - 1)}
    IN  IF ~env.embed_ok
        THEN Raised(cleared, counter, "Exception", "encode_chunks raised")
        ELSE IF ~env.add_ok
        THEN Raised(cleared, counter + 1, "Exception", "collection.add raised")
        ELSE [store |-> add_documents(cleared, records),
              uuid_counter |-> counter + 1, raised |-> "none",
              message |-> "Document successfully indexed",
              document_id |-> document_id, chunks_count |-> env.nchunks]

\* IndexingService.index_document(file_path, overwrite) on store st
index_document(st, counter, file_path, overwrite, env) ==
    IF ~env.exists
    THEN Raised(st, counter, "FileNotFoundError", "File not found")
    ELSE IF ~env.converted
    THEN Raised(st, counter, "ValueError", "Failed to process document")
    ELSE LET chunks == split_document(env) IN
    IF Len(chunks) = 0
    THEN Raised(st, counter, "ValueError", "Failed to split document into chunks")
    ELSE IF ~env.embed_ok
    THEN Raised(st, counter, "Exception", "encode_chunks raised")
    ELSE
    LET document_id == uuid4(counter)
        records == {[id |-> chunk_id(document_id, i - 1),
                     document_id |-> document_id,
                     file_path |-> file_path,
                     chunk_index |-> chunks[i].chunk_index,
                     call |-> counter + 1] : i \in 1..Len(chunks)}
        cleared == IF overwrite
                   THEN delete_where(st, "file_path", file_path)
                   ELSE st
    IN  IF ~env.add_ok
        THEN Raised(cleared, counter + 1, "Exception", "collection.add raised")
        ELSE [store |-> add_documents(cleared, records),
              uuid_counter |-> counter + 1,
              raised |-> "none",
              message |-> "Document successfully indexed",
              document_id |-> document_id,
              chunks_count |-> Len(chunks)]

\* index_document from step 3 on, given the chunks split_document returned:
\* the ids are built from the position of each chunk in the list and the
\* metadata from the chunk's own chunk_index
index_chunks(st, counter, file_path, overwrite, chunks) ==
    IF Len(chunks) = 0
    THEN Raised(st, counter, "ValueError", "Failed to split document into chunks")
    ELSE
    LET document_id == uuid4(counter)
        records == {[id |-> chunk_id(document_id, i - 1),
                     document_id |-> document_id,
                     file_path |-> file_path,
                     chunk_index |-> chunks[i].chunk_index,
                     call |-> counter + 1] : i \in 1..Len(chunks)}
        cleared == IF overwrite
                   THEN delete_where(st, "file_path", file_path)
                   ELSE st
    IN  [store |-> add_documents(cleared, records),
         uuid_counter |-> counter + 1,
         raised |-> "none",
         message |-> "Document successfully indexed",
         document_id |-> document_id,
         chunks_count |-> Len(chunks)]

\* index_document in the steps that touch the collection.  A call is what
\* the method holds in its local variables between them.
Workers == {"w1", "w2"}
Idle == [pc |-> "idle"]

\* lines 63-123: the checks, the chunks, the embeddings, the document_id and
\* the records, before the collection is touched
index_prepare(counter, file_path, overwrite, env) ==
    IF ~env.exists
    THEN [raised |-> "FileNotFoundError", uuid_counter |-> counter, call |-> Idle]
    ELSE IF ~env.converted \/ Len(split_document(env)) = 0
    THEN [raised |-> "ValueError", uuid_counter |-> counter, call |-> Idle]
    ELSE IF ~env.embed_ok
    THEN [raised |-> "Exception", uuid_counter |-> counter, call |-> Idle]
    ELSE
    LET chunks == split_document(env)
        document_id == uuid4(counter)
    IN  [raised |-> "none", uuid_counter |-> counter + 1,
         call |-> [pc |-> "prepared", file_path |-> file_path,
                   overwrite |-> overwrite, add_ok |-> env.add_ok,
                   document_id |-> document_id, removed |-> 0,
                   records |-> {[id |-> chunk_id(document_id, i - 1),
                                 document_id |-> document_id,
                                 file_path |-> file_path,
                                 chunk_index |-> chunks[i].chunk_index,
                                 call |-> counter + 1] : i \in 1..Len(chunks)}]]

\* an overwrite that deletes nothing
index_delete_skip(st, call) == st

\* lines 126-128: self.chroma_manager.delete(where={'file_path': file_path})
index_delete(st, call) == delete_where(st, "file_path", call.file_path)

\* an add that first removes the records of the path that are in the store
index_add_replace(st, call) ==
    IF call.add_ok
    THEN [store |-> add_documents(delete_where(st, "file_path", call.file_path),
                                  call.records),
          raised |-> "none"]
    ELSE [store |-> st, raised |-> "Exception"]

\* lines 131-136: self.chroma_manager.add_documents(...), which may raise
index_add(st, call) ==
    IF call.add_ok
    THEN [store |-> add_documents(st, call.records), raised |-> "none"]
    ELSE [store |-> st, raised |-> "Exception"]

\* the per-file result records of index_directory's loop over processed_docs
RECURSIVE index_each(_, _, _, _, _)
index_each(st, counter, docs, overwrite, results) ==
    IF docs = <<>>
    THEN [store |-> st, uuid_counter |-> counter, results |-> results]
    ELSE LET doc == Head(docs)
             r == index_document(st, counter, doc.file_path, overwrite, doc.env)
             result == IF r.raised = "none"
                       THEN [success |-> TRUE, file_path |-> doc.file_path,
                             document_id |-> r.document_id,
                             chunks_count |-> r.chunks_count]
                       ELSE [success |-> FALSE, file_path |-> doc.file_path,
                             document_id |-> None, chunks_count |-> 0]
         IN  index_each(r.store, r.uuid_counter, Tail(docs), overwrite,
                        Append(results, result))

\* IndexingService.index_directory(directory_path, overwrite) on a directory
\* whose walk meets the files of listing
index_directory(st, counter, dir_exists, listing, overwrite) ==
    IF ~dir_exists
    THEN [store |-> st, uuid_counter |-> counter,
          raised |-> "FileNotFoundError", results |-> <<>>]
    ELSE LET processed_docs == process_directory(listing)
             r == index_each(st, counter, processed_docs, overwrite, <<>>)
         IN  [store |-> r.store, uuid_counter |-> r.uuid_counter,
              raised |-> "none", results |-> r.results]

\* the outcomes of the existence lookup collection.query(query_texts=[""],
\* n_results=1, where=...): it returns, raises a ValueError, or raises
\* another exception
Lookups == {"ok", "ValueError", "Exception"}

\* the outcome of a delete_document call
Deleted(st, exception, message, deleted_count) ==
    [store |-> st, raised |-> exception, message |-> message,
     deleted_count |-> deleted_count]

\* a delete_document that deletes without looking the document up
delete_document_unchecked(st, document_id, file_path, lookup, cf) ==
    IF document_id = None /\ file_path = NoPath
    THEN Deleted(st, "ValueError", "Must specify document_id or file_path", 0)
    ELSE
    LET key == IF document_id # None THEN "document_id" ELSE "file_path"
        value == IF document_id # None THEN document_id ELSE file_path
        after == delete_where(st, key, value)
    IN  Deleted(after, "none", "Document deleted from index",
                count(st, cf[1]) - count(after, cf[3]))

\* IndexingService.delete_document(document_id, file_path) on store st;
\* cf[1], cf[2], cf[3] tell whether the backend raises under the count()
\* before the lookup, the count() of the fallback and the count() at the end
delete_document(st, document_id, file_path, lookup, cf) ==
    IF document_id = None /\ file_path = NoPath
    THEN Deleted(st, "ValueError", "Must specify document_id or file_path", 0)
    ELSE
    LET count_before == count(st, cf[1])
        key == IF document_id # None THEN "document_id" ELSE "file_path"
        value == IF document_id # None THEN document_id ELSE file_path
        ids == matching(st, key, value)
        after == delete_where(st, key, value)
    IN  IF lookup = "ok"
        THEN IF ids = {}
             THEN Deleted(st, "ValueError", "not found in index", 0)
             ELSE Deleted(after, "none", "Document deleted from index",
                          count_before - count(after, cf[3]))
        ELSE IF lookup = "ValueError"
        THEN Deleted(st, "ValueError", "raised by the lookup", 0)
        ELSE IF count(after, cf[2]) = count_before
             THEN Deleted(after, "ValueError", "not found in index", 0)
             ELSE Deleted(after, "none", "Document deleted from index",
                          count_before - count(after, cf[3]))

\* delete_document in the steps that read or write the collection.  A call
\* is what the method holds in its local variables between them: the filter
\* {key: value}, count_before, and the number of records its own delete
\* removed (which the method never learns).

\* lines 205-210: the argument check and count_before = count()
delete_begin(st, document_id, file_path) ==
    IF document_id = None /\ file_path = NoPath
    THEN [raised |-> "ValueError", call |-> Idle]
    ELSE [raised |-> "none",
          call |-> [pc |-> "counted",
                    key |-> IF document_id # None THEN "document_id"
                                                  ELSE "file_path",
                    value |-> IF document_id # None THEN document_id
                                                    ELSE file_path,
                    count_before |-> count(st, FALSE),
                    removed |-> 0]]

\* lines 213-225 / 242-252: the existence lookup and what follows from it
delete_lookup(st, call, lookup) ==
    IF lookup = "ok"
    THEN IF matching(st, call.key, call.value) = {}
         THEN [raised |-> "ValueError", call |-> Idle]
         ELSE [raised |-> "none", call |-> [call EXCEPT !.pc = "found"]]
    ELSE IF lookup = "ValueError"
    THEN [raised |-> "ValueError", call |-> Idle]
    ELSE [raised |-> "none", call |-> [call EXCEPT !.pc = "fallback"]]

\* lines 228 / 235 / 255 / 260: chroma_manager.delete(where={key: value})
delete_remove(st, call) ==
    [store |-> delete_where(st, call.key, call.value),
     call |-> [call EXCEPT !.pc = IF call.pc = "found" THEN "deleted"
                                                        ELSE "recount",
                           !.removed = Cardinality(
                                matching(st, call.key, call.value))]]

\* lines 236-238 / 261-263: count_check = count() against count_before
delete_count_check(st, call) ==
    IF count(st, FALSE) = call.count_before
    THEN [raised |-> "ValueError", call |-> Idle]
    ELSE [raised |-> "none", call |-> [call EXCEPT !.pc = "deleted"]]

\* lines 266-274: count_after = count() and the success result
delete_return(st, call) ==
    [raised |-> "none", message |-> "Document deleted from index",
     deleted_count |-> call.count_before - count(st, FALSE)]

----------------------------------------------------------------------------
(* utils/cache.py: LRUCache.  A cache is [maxsize, cache, access_order];    *)
(* cache is the dict (a function on its keys), access_order the list.      *)

Keys == {"a", "b", "c"}
Values == {"v1", "v2"}
NoValue == "None"

\* LRUCache.__init__(maxsize)
LRUCache(maxsize) == [maxsize |-> maxsize, cache |-> <<>>, access_order |-> <<>>]

\* LRUCache._make_key: the md5 digest of the JSON form of the arguments
make_key(args) == <<"md5", args>>

\* list.remove(key): the list without the first occurrence of key
RECURSIVE remove(_, _)
remove(order, key) ==
    IF order = <<>> THEN <<>>
    ELSE IF Head(order) = key THEN Tail(order)
    ELSE <<Head(order)>> \o remove(Tail(order), key)

\* key in self.access_order
in_order(order, key) == \E i \in 1..Len(order) : order[i] = key

\* an assignment that keeps the value of a key the dict already holds
assign_keep(cache, key, value) ==
    [k \in DOMAIN cache \cup {key} |->
        IF k \in DOMAIN cache THEN cache[k] ELSE value]

\* self.cache[key] = value
assign(cache, key, value) ==
    [k \in DOMAIN cache \cup {key} |-> IF k = key THEN value ELSE cache[k]]

\* del self.cache[key]
del(cache, key) == [k \in DOMAIN cache \ {key} |-> cache[k]]

\* LRUCache.size
size(c) == Cardinality(DOMAIN c.cache)

\* a get that leaves the access order alone
lru_get_nobump(c, args) ==
    LET key == make_key(args) IN
    IF key \in DOMAIN c.cache
    THEN [c |-> c, raised |-> "none", value |-> c.cache[key]]
    ELSE [c |-> c, raised |-> "none", value |-> NoValue]

\* LRUCache.get(*args): the cache afterwards and the value returned
lru_get(c, args) ==
    LET key == make_key(args) IN
    IF key \in DOMAIN c.cache
    THEN [c |-> [c EXCEPT !.access_order =
                     Append(IF in_order(c.access_order, key)
                            THEN remove(c.access_order, key)
                            ELSE c.access_order, key)],
          raised |-> "none", value |-> c.cache[key]]
    ELSE [c |-> c, raised |-> "none", value |-> NoValue]

\* a set that never evicts
lru_set_noevict(c, value, args) ==
    LET key == make_key(args)
        order == IF in_order(c.access_order, key)
                 THEN remove(c.access_order, key) ELSE c.access_order
    IN  [c |-> [c EXCEPT !.cache = assign(c.cache, key, value),
                         !.access_order = Append(order, key)],
         raised |-> "none", value |-> NoValue]

\* LRUCache.set(value, *args): list.pop(0) raises IndexError on an empty
\* list and del raises KeyError on a key the dict does not hold
lru_set(c, value, args) ==
    LET key == make_key(args)
        full == size(c) >= c.maxsize /\ key \notin DOMAIN c.cache
    IN  IF full /\ c.access_order = <<>>
        THEN [c |-> c, raised |-> "IndexError", value |-> NoValue]
        ELSE IF full /\ Head(c.access_order) \notin DOMAIN c.cache
        THEN [c |-> [c EXCEPT !.access_order = Tail(c.access_order)],
              raised |-> "KeyError", value |-> NoValue]
        ELSE
        LET cache1 == IF full THEN del(c.cache, Head(c.access_order)) ELSE c.cache
            order1 == IF full THEN Tail(c.access_order) ELSE c.access_order
            order2 == IF in_order(order1, key) THEN remove(order1, key) ELSE order1
        IN  [c |-> [c EXCEPT !.cache = assign(cache1, key, value),
                             !.access_order = Append(order2, key)],
             raised |-> "none", value |-> NoValue]

\* a clear that empties the access order and keeps the entries
lru_clear_order(c) == [c EXCEPT !.access_order = <<>>]

\* LRUCache.clear
lru_clear(c) == [c EXCEPT !.cache = <<>>, !.access_order = <<>>]

\* get, set and clear statement by statement, for callers that share the
\* cache and take no lock.  A call is [pc, op, key, value, oldest_key, alone]:
\* pc names the statement it runs next, oldest_key is the local of set, and
\* alone tells that no other call was in progress at any time since it
\* began.  A step gives the cache afterwards, the call afterwards (pc "done"
\* when it returned or raised) and what it raised.
CacheCall(op, pc, args, value, alone) ==
    [pc |-> pc, op |-> op, key |-> make_key(args), value |-> value,
     oldest_key |-> NoValue, alone |-> alone]

Goes(c, call, pc) == [c |-> c, call |-> [call EXCEPT !.pc = pc], raised |-> "none"]
Raises(c, call, exception) ==
    [c |-> c, call |-> [call EXCEPT !.pc = "done"], raised |-> exception]

\* LRUCache.get, lines 42-51
get_step(c, call) ==
    CASE call.pc = "get_test" ->                          \* line 44
            IF call.key \in DOMAIN c.cache
            THEN Goes(c, call, "get_in_order")
            ELSE Goes(c, [call EXCEPT !.value = NoValue], "done")
      [] call.pc = "get_in_order" ->                      \* line 46
            IF in_order(c.access_order, call.key)
            THEN Goes(c, call, "get_remove")
            ELSE Goes(c, call, "get_append")
      [] call.pc = "get_remove" ->                        \* line 47
            IF in_order(c.access_order, call.key)
            THEN Goes([c EXCEPT !.access_order = remove(c.access_order, call.key)],
                      call, "get_append")
            ELSE Raises(c, call, "ValueError")
      [] call.pc = "get_append" ->                        \* line 48
            Goes([c EXCEPT !.access_order = Append(c.access_order, call.key)],
                 call, "get_return")
      [] call.pc = "get_return" ->                        \* line 49
            IF call.key \in DOMAIN c.cache
            THEN Goes(c, [call EXCEPT !.value = c.cache[call.key]], "done")
            ELSE Raises(c, call, "KeyError")

\* a set whose eviction test never finds the cache full
set_step_noevict(c, call) ==
    CASE call.pc = "set_test" -> Goes(c, call, "set_assign")
      [] call.pc = "set_assign" ->
            Goes([c EXCEPT !.cache = assign(c.cache, call.key, call.value)],
                 call, "set_in_order")
      [] call.pc = "set_in_order" ->
            IF in_order(c.access_order, call.key)
            THEN Goes(c, call, "set_remove")
            ELSE Goes(c, call, "set_append")
      [] call.pc = "set_remove" ->
            IF in_order(c.access_order, call.key)
            THEN Goes([c EXCEPT !.access_order = remove(c.access_order, call.key)],
                      call, "set_append")
            ELSE Raises(c, call, "ValueError")
      [] call.pc = "set_append" ->
            Goes([c EXCEPT !.access_order = Append(c.access_order, call.key)],
                 call, "done")

\* LRUCache.set, lines 55-67
set_step(c, call) ==
    CASE call.pc = "set_test" ->                          \* line 58
            IF size(c) >= c.maxsize /\ call.key \notin DOMAIN c.cache
            THEN Goes(c, call, "set_pop")
            ELSE Goes(c, call, "set_assign")
      [] call.pc = "set_pop" ->                           \* line 59
            IF c.access_order = <<>>
            THEN Raises(c, call, "IndexError")
            ELSE Goes([c EXCEPT !.access_order = Tail(c.access_order)],
                      [call EXCEPT !.oldest_key = Head(c.access_order)],
                      "set_del")
      [] call.pc = "set_del" ->                           \* line 60
            IF call.oldest_key \in DOMAIN c.cache
            THEN Goes([c EXCEPT !.cache = del(c.cache, call.oldest_key)],
                      [call EXCEPT !.oldest_key = NoValue], "set_assign")
            ELSE Raises(c, call, "KeyError")
      [] call.pc = "set_assign" ->                        \* line 64
            Goes([c EXCEPT !.cache = assign(c.cache, call.key, call.value)],
                 call, "set_in_order")
      [] call.pc = "set_in_order" ->                      \* line 65
            IF in_order(c.access_order, call.key)
            THEN Goes(c, call, "set_remove")
            ELSE Goes(c, call, "set_append")
      [] call.pc = "set_remove" ->                        \* line 66
            IF in_order(c.access_order, call.key)
            THEN Goes([c EXCEPT !.access_order = remove(c.access_order, call.key)],
                      call, "set_append")
            ELSE Raises(c, call, "ValueError")
      [] call.pc = "set_append" ->                        \* line 67
            Goes([c EXCEPT !.access_order = Append(c.access_order, call.key)],
                 call, "done")

\* LRUCache.clear, lines 69-73
clear_step(c, call) ==
    CASE call.pc = "clear_cache" ->                       \* line 71
            Goes([c EXCEPT !.cache = <<>>], call, "clear_order")
      [] call.pc = "clear_order" ->                       \* line 72
            Goes([c EXCEPT !.access_order = <<>>], call, "done")

\* _embedding_cache = LRUCache(maxsize=256)
EmbeddingCacheMaxsize == 256
\* _query_cache = LRUCache(maxsize=128)
QueryCacheMaxsize == 128

\* the wrapper cached_embedding and cached_query put around a function,
\* called with the arguments that make the key; result is what the wrapped
\* function returns when it is called
cached(c, args, result) ==
    LET got == lru_get(c, args) IN
    IF got.value # NoValue
    THEN [c |-> got.c, raised |-> "none", value |-> got.value, called |-> FALSE]
    ELSE LET put == lru_set(got.c, result, args)
         IN  [c |-> put.c, raised |-> put.raised,
              value |-> IF put.raised = "none" THEN result ELSE NoValue,
              called |-> TRUE]

\* cached_embedding(func)(text)
cached_embedding(c, text, result) == cached(c, <<text>>, result)

\* cached_query(func)(query): cache_key = (query, tuple(args),
\* tuple(sorted(kwargs.items())))
cached_query(c, query, result) == cached(c, <<query, <<>>, <<>>>>, result)

----------------------------------------------------------------------------
(* services/search_service.py *)

Queries == {"alpha", "beta"}
\* min_score=None
NoScore == -1
\* scores and distances are counted in tenths: 10 is 1.0
One == 10

\* the distance the collection reports between a query and a record; it is
\* fixed by the embeddings, which are deterministic
Distance(query, r) ==
    ((IF query = "alpha" THEN 3 ELSE 7) * r.document_id + 4 * r.chunk_index) % 13

\* the collection's ranking: ascending distance, ties in id order
Rank(query, r) == Distance(query, r) * 100 + r.document_id * 10 + r.chunk_index

RECURSIVE ranked(_, _)
ranked(rs, query) ==
    IF rs = {} THEN <<>>
    ELSE LET first == CHOOSE r \in rs : \A o \in rs : Rank(query, r) <= Rank(query, o)
         IN  <<first>> \o ranked(rs \ {first}, query)

\* ChromaManager.search(n_results, where): the n_results nearest records
chroma_search(st, query, n_results, where) ==
    LET hits == ranked(IF where = NoPath THEN st
                       ELSE matching(st, "file_path", where), query)
    IN  SubSeq(hits, 1, IF Len(hits) < n_results THEN Len(hits) ELSE n_results)

\* ChromaManager.get_all_documents(limit, offset, where).  With a filter it
\* asks collection.query for the records nearest to the empty text, which
\* rejects n_results = 0
get_all_documents(st, limit, offset, where) ==
    IF where # NoPath
    THEN LET all_count == Cardinality(st)
             fetch_limit == IF truthy(offset) /\ truthy(limit) THEN offset + limit
                            ELSE IF truthy(limit) THEN limit ELSE all_count
             n_results == IF truthy(fetch_limit) THEN fetch_limit ELSE all_count
             found == results_of(chroma_search(st, "", n_results, where))
             end == IF truthy(limit) THEN offset + limit ELSE Len(found.ids)
         IN  IF n_results = 0
             THEN [raised |-> "Exception", ids |-> <<>>, documents |-> <<>>,
                   metadatas |-> <<>>]
             ELSE IF truthy(offset) /\ offset > 0
             THEN [raised |-> "none",
                   ids |-> pyslice(found.ids, offset, end),
                   documents |-> pyslice(found.documents, offset, end),
                   metadatas |-> pyslice(found.metadatas, offset, end)]
             ELSE IF truthy(limit) /\ Len(found.ids) > limit
             THEN [raised |-> "none",
                   ids |-> pyslice(found.ids, 0, limit),
                   documents |-> pyslice(found.documents, 0, limit),
                   metadatas |-> pyslice(found.metadatas, 0, limit)]
             ELSE [raised |-> "none", ids |-> found.ids,
                   documents |-> found.documents, metadatas |-> found.metadatas]
    ELSE IF truthy(limit) \/ truthy(offset)
    THEN LET fetch_limit == IF truthy(offset) /\ truthy(limit) THEN offset + limit
                            ELSE IF truthy(limit) THEN limit ELSE NoLimit
             results == results_of(collection_get(st, fetch_limit))
             end == IF truthy(limit) THEN offset + limit ELSE Len(results.ids)
         IN  IF truthy(offset) /\ offset > 0
             THEN [raised |-> "none",
                   ids |-> pyslice(results.ids, offset, end),
                   documents |-> pyslice(results.documents, offset, end),
                   metadatas |-> pyslice(results.metadatas, offset, end)]
             ELSE IF truthy(limit) /\ results.ids # <<>>
             THEN [raised |-> "none",
                   ids |-> pyslice(results.ids, 0, limit),
                   documents |-> pyslice(results.documents, 0, limit),
                   metadatas |-> pyslice(results.metadatas, 0, limit)]
             ELSE [raised |-> "none", ids |-> results.ids,
                   documents |-> results.documents, metadatas |-> results.metadatas]
    ELSE LET results == results_of(collection_get(st, NoLimit))
         IN  [raised |-> "none", ids |-> results.ids,
              documents |-> results.documents, metadatas |-> results.metadatas]

\* a score that is not clamped at 0
score_unclamped(distance) == One - distance

\* score = max(0.0, 1.0 - distance)
score(distance) == IF One - distance > 0 THEN One - distance ELSE 0

\* SearchService.search(query): the results list of the response
search(st, query, top_k, min_score, where) ==
    LET hits == chroma_search(st, query, top_k, where)
        scored == [i \in 1..Len(hits) |->
                      [id |-> hits[i].id, document_id |-> hits[i].document_id,
                       score |-> score(Distance(query, hits[i]))]]
    IN  SelectSeq(scored, LAMBDA h : ~(min_score # NoScore /\ h.score < min_score))

----------------------------------------------------------------------------
(* The state after construction *)

\* no split_text call made: the default TextSplitter and no text
NoSplit ==
    [raw |-> <<>>, cfg |-> TextSplitter(CHUNK_SIZE, CHUNK_OVERLAP, MIN_CHUNK_SIZE),
     called |-> FALSE, chunks |-> <<>>, windows |-> <<>>]

Init ==
    /\ store = {}
    /\ uuid_counter = 0
    /\ query_cache = LRUCache(QueryCacheMaxsize)
    /\ embedding_cache = LRUCache(EmbeddingCacheMaxsize)
    /\ lru = LRUCache(MaxCacheSize)
    /\ hist = <<>>
    /\ split = NoSplit
    /\ workers = [w \in Workers |-> Idle]
    /\ last = [op |-> "init", raised |-> "none"]

\* the same, with the lru instance constructed with any maxsize
InitCache ==
    /\ store = {}
    /\ uuid_counter = 0
    /\ query_cache = LRUCache(QueryCacheMaxsize)
    /\ embedding_cache = LRUCache(EmbeddingCacheMaxsize)
    /\ lru \in {LRUCache(m) : m \in 0..MaxCacheSize}
    /\ hist = <<>>
    /\ split = NoSplit
    /\ workers = [w \in Workers |-> Idle]
    /\ last = [op |-> "init", raised |-> "none"]

----------------------------------------------------------------------------
(* The operations of the services *)

\* the document_ids that have records with this file_path
DocsAt(st, file_path) == {r.document_id : r \in matching(st, "file_path", file_path)}

\* index_document called in an environment drawn from envs
IndexDocumentWith(envs) ==
    \E file_path \in Paths, overwrite \in BOOLEAN, env \in envs :
        LET r == index_document(store, uuid_counter, file_path, overwrite, env) IN
        /\ r.uuid_counter <= MaxUuid
        /\ store' = r.store
        /\ uuid_counter' = r.uuid_counter
        /\ last' = [op |-> "index_document", overwrite |-> overwrite,
                    raised |-> r.raised, message |-> r.message,
                    before |-> Cardinality(DocsAt(store, file_path))]
        /\ UNCHANGED <<query_cache, embedding_cache, lru, hist, split, workers>>

IndexDocument == IndexDocumentWith(Envs)

\* what the walk can meet for a supported file: nothing, a file the
\* converter fails on, or a file it converts; the file stays in place and
\* the converter answers the same during the walk and during the indexing
Entries(file_path) ==
    {<<>>, <<DirEntry(file_path, FALSE, Env(TRUE, FALSE, 0, FALSE, FALSE))>>}
    \cup {<<DirEntry(file_path, TRUE, env)>> :
             env \in {e \in Envs : e.exists /\ e.converted}}

\* a file with an unsupported extension, which the walk skips
OtherEntry == <<DirEntry(OtherFile, TRUE, Env(TRUE, TRUE, 1, TRUE, TRUE))>>

\* the files of a listing that have a supported extension
Recognized(listing) ==
    SelectSeq(listing, LAMBDA e : e.file_path \in SUPPORTED_EXTENSIONS)

\* the number of success records in a result list
Successes(results) ==
    Cardinality({i \in 1..Len(results) : results[i].success})

IndexDirectory ==
    \/ /\ last' = [op |-> "index_directory", overwrite |-> FALSE,
                   raised |-> index_directory(store, uuid_counter, FALSE, <<>>,
                                              FALSE).raised,
                   nfiles |-> 0, nresults |-> 0, nsuccess |-> 0]
       /\ UNCHANGED <<store, uuid_counter, query_cache, embedding_cache, lru, hist, split, workers>>
    \/ \E overwrite \in BOOLEAN, a \in Entries("a.pdf"), b \in Entries("b.txt") :
        LET listing == a \o OtherEntry \o b
            r == index_directory(store, uuid_counter, TRUE, listing, overwrite)
        IN
        /\ r.uuid_counter <= MaxUuid
        /\ store' = r.store
        /\ uuid_counter' = r.uuid_counter
        /\ last' = [op |-> "index_directory", overwrite |-> overwrite,
                    raised |-> r.raised,
                    nfiles |-> Len(Recognized(listing)),
                    nresults |-> Len(r.results),
                    nsuccess |-> Successes(r.results)]
        /\ UNCHANGED <<query_cache, embedding_cache, lru, hist, split, workers>>

\* which selectors a delete_document call was given
Given(document_id, file_path) ==
    IF document_id # None /\ file_path # NoPath THEN "both"
    ELSE IF document_id # None THEN "document_id"
    ELSE IF file_path # NoPath THEN "file_path"
    ELSE "neither"

\* delete_document with a backend whose count() may raise as cf says
DeleteDocumentWith(cfs) ==
    \E document_id \in DocIds \cup {None}, file_path \in Paths \cup {NoPath},
       lookup \in Lookups, cf \in cfs :
        LET r == delete_document(store, document_id, file_path, lookup, cf) IN
        /\ store' = r.store
        /\ last' = [op |-> "delete_document",
                    given |-> Given(document_id, file_path),
                    lookup |-> lookup, raised |-> r.raised,
                    message |-> r.message, deleted_count |-> r.deleted_count]
        /\ UNCHANGED <<uuid_counter, query_cache, embedding_cache, lru, hist, split, workers>>

\* a backend whose count() answers every time
NoFault == <<FALSE, FALSE, FALSE>>

DeleteDocument == DeleteDocumentWith({NoFault})

\* bounds on the arguments of search
MaxTopK == 2
MinScores == {NoScore, 4}

Search ==
    \E query \in Queries, top_k \in 1..MaxTopK, min_score \in MinScores,
       where \in Paths \cup {NoPath} :
        /\ last' = [op |-> "search", raised |-> "none",
                    key |-> make_key(<<query, top_k, min_score, where>>),
                    total_results |->
                        Len(search(store, query, top_k, min_score, where))]
        /\ UNCHANGED <<store, uuid_counter, query_cache, embedding_cache, lru, hist, split, workers>>

\* SearchService.clear_cache
ClearCache ==
    /\ query_cache' = lru_clear(query_cache)
    /\ last' = [op |-> "clear_cache", raised |-> "none",
                before |-> size(query_cache)]
    /\ UNCHANGED <<store, uuid_counter, embedding_cache, lru, hist, split, workers>>

Next ==
    \/ IndexDocument
    \/ DeleteDocument

Spec == Init /\ [][Next]_vars

\* the same with index_directory
NextDirectory ==
    \/ IndexDocument
    \/ IndexDirectory
    \/ DeleteDocument

SpecDirectory == Init /\ [][NextDirectory]_vars

\* indexing, deleting and searching
NextSearch ==
    \/ IndexDocument
    \/ DeleteDocument
    \/ Search
    \/ ClearCache

SpecSearch == Init /\ [][NextSearch]_vars

----------------------------------------------------------------------------
(* The calls on one LRUCache instance, one at a time *)

LruGet ==
    \E args \in Keys :
        LET r == lru_get(lru, args) IN
        /\ Len(hist) < MaxOps
        /\ lru' = r.c
        /\ hist' = Append(hist, [op |-> "get", args |-> args,
                                 value |-> r.value, raised |-> r.raised])
        /\ last' = [op |-> "get", raised |-> r.raised]
        /\ UNCHANGED <<store, uuid_counter, query_cache, embedding_cache, split, workers>>

LruSet ==
    \E args \in Keys, value \in Values :
        LET r == lru_set(lru, value, args) IN
        /\ Len(hist) < MaxOps
        /\ lru' = r.c
        /\ hist' = Append(hist, [op |-> "set", args |-> args,
                                 value |-> value, raised |-> r.raised])
        /\ last' = [op |-> "set", raised |-> r.raised]
        /\ UNCHANGED <<store, uuid_counter, query_cache, embedding_cache, split, workers>>

LruClear ==
    /\ Len(hist) < MaxOps
    /\ lru' = lru_clear(lru)
    /\ hist' = Append(hist, [op |-> "clear", args |-> NoValue,
                             value |-> NoValue, raised |-> "none"])
    /\ last' = [op |-> "clear", raised |-> "none"]
    /\ UNCHANGED <<store, uuid_counter, query_cache, embedding_cache, split, workers>>

NextCache ==
    \/ LruGet
    \/ LruSet
    \/ LruClear

SpecCache == InitCache /\ [][NextCache]_vars

----------------------------------------------------------------------------
(* The collection read and written through ChromaManager *)

\* the largest limit and offset passed to get_all_documents
MaxLimit == 2

\* ChromaManager.add_documents called by another client of the collection,
\* with ids=None and a metadata that has no document_id
AddDocuments ==
    \E file_path \in Paths :
        /\ uuid_counter < MaxUuid
        /\ store' = add_documents(store,
                        {[id |-> <<"uuid4", uuid4(uuid_counter)>>,
                          document_id |-> None, file_path |-> file_path,
                          chunk_index |-> 0, call |-> uuid_counter + 1]})
        /\ uuid_counter' = uuid_counter + 1
        /\ last' = [op |-> "add_documents", raised |-> "none"]
        /\ UNCHANGED <<query_cache, embedding_cache, lru, hist, split, workers>>

GetUniqueDocuments ==
    /\ last' = [op |-> "get_unique_documents", raised |-> "none",
                result |-> get_unique_documents(store)]
    /\ UNCHANGED <<store, uuid_counter, query_cache, embedding_cache, lru, hist, split, workers>>

GetAllDocuments ==
    \E limit \in {NoLimit} \cup 0..MaxLimit, offset \in {NoLimit} \cup 0..MaxLimit,
       where \in Paths \cup {NoPath} :
        LET r == get_all_documents(store, limit, offset, where) IN
        /\ last' = [op |-> "get_all_documents", raised |-> r.raised,
                    limit |-> limit, offset |-> offset, where |-> where,
                    ids |-> r.ids, documents |-> r.documents,
                    metadatas |-> r.metadatas]
        /\ UNCHANGED <<store, uuid_counter, query_cache, embedding_cache, lru, hist, split, workers>>

NextStore ==
    \/ IndexDocument
    \/ AddDocuments
    \/ GetUniqueDocuments
    \/ GetAllDocuments

SpecStore == Init /\ [][NextStore]_vars

----------------------------------------------------------------------------
(* The two process-wide caches, filled through their decorators *)

CachedQuery ==
    \E query \in Queries, result \in Values :
        LET r == cached_query(query_cache, query, result) IN
        /\ query_cache' = r.c
        /\ last' = [op |-> "cached_query", raised |-> r.raised, value |-> r.value]
        /\ UNCHANGED <<store, uuid_counter, embedding_cache, lru, hist, split, workers>>

CachedEmbedding ==
    \E text \in Queries, result \in Values :
        LET r == cached_embedding(embedding_cache, text, result) IN
        /\ embedding_cache' = r.c
        /\ last' = [op |-> "cached_embedding", raised |-> r.raised, value |-> r.value]
        /\ UNCHANGED <<store, uuid_counter, query_cache, lru, hist, split, workers>>

NextCaches ==
    \/ AddDocuments
    \/ CachedQuery
    \/ CachedEmbedding
    \/ ClearCache

SpecCaches == Init /\ [][NextCaches]_vars

----------------------------------------------------------------------------
(* index_document calls of concurrent workers on the one collection: the    *)
(* API's worker processes and any other client of the persistent           *)
(* collection.  Nothing in the services takes a lock, so a call's delete   *)
(* and add are separate steps, and searches run between them.              *)

\* a worker enters index_document with overwrite drawn from overwrites
BeginIndexWith(w, overwrites) ==
    \E file_path \in Paths, overwrite \in overwrites, env \in Envs :
        LET r == index_prepare(uuid_counter, file_path, overwrite, env) IN
        /\ workers[w].pc = "idle"
        /\ r.uuid_counter <= MaxUuid
        /\ uuid_counter' = r.uuid_counter
        /\ workers' = [workers EXCEPT ![w] = r.call]
        /\ last' = [op |-> "index_document", step |-> "begin", worker |-> w,
                    raised |-> r.raised]
        /\ UNCHANGED <<store, query_cache, embedding_cache, lru, hist, split>>

BeginIndex(w) == BeginIndexWith(w, BOOLEAN)

IndexDelete(w) ==
    /\ workers[w].pc = "prepared"
    /\ workers[w].overwrite
    /\ store' = index_delete(store, workers[w])
    /\ workers' = [workers EXCEPT
                      ![w].pc = "deleted",
                      ![w].removed = Cardinality(
                          matching(store, "file_path", workers[w].file_path))]
    /\ last' = [op |-> "index_document", step |-> "delete", worker |-> w,
                raised |-> "none"]
    /\ UNCHANGED <<uuid_counter, query_cache, embedding_cache, lru, hist, split>>

IndexAdd(w) ==
    LET r == index_add(store, workers[w]) IN
    /\ \/ workers[w].pc = "deleted"
       \/ workers[w].pc = "prepared" /\ ~workers[w].overwrite
    /\ store' = r.store
    /\ workers' = [workers EXCEPT ![w] = Idle]
    /\ last' = [op |-> "index_document", step |-> "add", worker |-> w,
                raised |-> r.raised]
    /\ UNCHANGED <<uuid_counter, query_cache, embedding_cache, lru, hist, split>>

\* a search by another client, filtered to one file
SearchPath ==
    \E query \in Queries, where \in Paths :
        /\ last' = [op |-> "search", raised |-> "none", where |-> where,
                    total_results |-> Len(search(store, query, MaxTopK, NoScore, where))]
        /\ UNCHANGED <<store, uuid_counter, query_cache, embedding_cache, lru,
                       hist, split, workers>>

NextConcurrent ==
    \/ \E w \in Workers : BeginIndex(w)
    \/ \E w \in Workers : IndexDelete(w)
    \/ \E w \in Workers : IndexAdd(w)
    \/ SearchPath

SpecConcurrent == Init /\ [][NextConcurrent]_vars

\* the workers when every call is index_document(path, overwrite=True)
BeginOverwrite(w) == BeginIndexWith(w, {TRUE})

NextOverwrites ==
    \/ \E w \in Workers : BeginOverwrite(w)
    \/ \E w \in Workers : IndexDelete(w)
    \/ \E w \in Workers : IndexAdd(w)

SpecOverwrites == Init /\ [][NextOverwrites]_vars

----------------------------------------------------------------------------
(* delete_document calls of concurrent workers, each in its steps, beside   *)
(* index_document calls on the same collection                             *)

DeleteBegin(w) ==
    \E document_id \in DocIds \cup {None}, file_path \in Paths \cup {NoPath} :
        LET r == delete_begin(store, document_id, file_path) IN
        /\ workers[w].pc = "idle"
        /\ workers' = [workers EXCEPT ![w] = r.call]
        /\ last' = [op |-> "delete_document", step |-> "begin", worker |-> w,
                    raised |-> r.raised, deleted_count |-> 0, removed |-> 0]
        /\ UNCHANGED <<store, uuid_counter, query_cache, embedding_cache, lru,
                       hist, split>>

DeleteLookup(w) ==
    \E lookup \in Lookups :
        LET r == delete_lookup(store, workers[w], lookup) IN
        /\ workers[w].pc = "counted"
        /\ workers' = [workers EXCEPT ![w] = r.call]
        /\ last' = [op |-> "delete_document", step |-> "lookup", worker |-> w,
                    raised |-> r.raised, deleted_count |-> 0, removed |-> 0]
        /\ UNCHANGED <<store, uuid_counter, query_cache, embedding_cache, lru,
                       hist, split>>

DeleteRemove(w) ==
    LET r == delete_remove(store, workers[w]) IN
    /\ workers[w].pc \in {"found", "fallback"}
    /\ store' = r.store
    /\ workers' = [workers EXCEPT ![w] = r.call]
    /\ last' = [op |-> "delete_document", step |-> "delete", worker |-> w,
                raised |-> "none", deleted_count |-> 0, removed |-> 0]
    /\ UNCHANGED <<uuid_counter, query_cache, embedding_cache, lru, hist, split>>

DeleteCountCheck(w) ==
    LET r == delete_count_check(store, workers[w]) IN
    /\ workers[w].pc = "recount"
    /\ workers' = [workers EXCEPT ![w] = r.call]
    /\ last' = [op |-> "delete_document", step |-> "count_check", worker |-> w,
                raised |-> r.raised, deleted_count |-> 0, removed |-> 0]
    /\ UNCHANGED <<store, uuid_counter, query_cache, embedding_cache, lru,
                   hist, split>>

DeleteReturn(w) ==
    LET r == delete_return(store, workers[w]) IN
    /\ workers[w].pc = "deleted"
    /\ workers' = [workers EXCEPT ![w] = Idle]
    /\ last' = [op |-> "delete_document", step |-> "return", worker |-> w,
                raised |-> r.raised, deleted_count |-> r.deleted_count,
                removed |-> workers[w].removed]
    /\ UNCHANGED <<store, uuid_counter, query_cache, embedding_cache, lru,
                   hist, split>>

\* an index_document call that succeeds on a document of one chunk
IndexOneChunk == IndexDocumentWith({Env(TRUE, TRUE, 1, TRUE, TRUE)})

NextDeletes ==
    \/ IndexOneChunk
    \/ \E w \in Workers : DeleteBegin(w)
    \/ \E w \in Workers : DeleteLookup(w)
    \/ \E w \in Workers : DeleteRemove(w)
    \/ \E w \in Workers : DeleteCountCheck(w)
    \/ \E w \in Workers : DeleteReturn(w)

SpecDeletes == Init /\ [][NextDeletes]_vars

----------------------------------------------------------------------------
(* The calls of concurrent workers on one LRUCache instance, statement by   *)
(* statement: LRUCache takes no lock and the module-level caches are       *)
(* shared by every caller in the process                                   *)

\* the workers that are inside a call
Busy == {w \in Workers : workers[w].pc # "idle"}

\* worker w enters a call; the calls in progress are no longer alone
Enter(w, op, pc, args, value) ==
    /\ workers[w].pc = "idle"
    /\ Len(hist) + Cardinality(Busy) < MaxCalls
    /\ workers' = [v \in Workers |->
                      IF v = w THEN CacheCall(op, pc, args, value, Busy = {})
                      ELSE IF v \in Busy THEN [workers[v] EXCEPT !.alone = FALSE]
                      ELSE workers[v]]
    /\ last' = [op |-> op, step |-> "call", raised |-> "none"]
    /\ UNCHANGED <<store, uuid_counter, query_cache, embedding_cache, lru, hist,
                   split>>

\* worker w runs the statement it is at; r is what the statement does
Run(w, r) ==
    /\ lru' = r.c
    /\ workers' = [workers EXCEPT ![w] = IF r.call.pc = "done" THEN Idle
                                                               ELSE r.call]
    /\ hist' = IF r.call.pc = "done"
               THEN Append(hist, [op |-> r.call.op, raised |-> r.raised,
                                  alone |-> r.call.alone])
               ELSE hist
    /\ last' = [op |-> r.call.op, step |-> workers[w].pc, raised |-> r.raised]
    /\ UNCHANGED <<store, uuid_counter, query_cache, embedding_cache, split>>

CallGet(w) == \E args \in Keys : Enter(w, "get", "get_test", args, NoValue)

\* the value stored plays no part in what set does to the keys
CallSet(w) == \E args \in Keys : Enter(w, "set", "set_test", args, "v1")

CallClear(w) == Enter(w, "clear", "clear_cache", NoValue, NoValue)

StepGet(w) ==
    /\ workers[w].pc # "idle"
    /\ workers[w].op = "get"
    /\ Run(w, get_step(lru, workers[w]))

StepSet(w) ==
    /\ workers[w].pc # "idle"
    /\ workers[w].op = "set"
    /\ Run(w, set_step(lru, workers[w]))

StepClear(w) ==
    /\ workers[w].pc # "idle"
    /\ workers[w].op = "clear"
    /\ Run(w, clear_step(lru, workers[w]))

NextCacheSteps ==
    \/ \E w \in Workers : CallGet(w)
    \/ \E w \in Workers : CallSet(w)
    \/ \E w \in Workers : CallClear(w)
    \/ \E w \in Workers : StepGet(w)
    \/ \E w \in Workers : StepSet(w)
    \/ \E w \in Workers : StepClear(w)

SpecCacheSteps == InitCache /\ [][NextCacheSteps]_vars

----------------------------------------------------------------------------
(* split_text called once on a text, by a TextSplitter *)

\* every text of up to MaxTextLen characters
ShortTexts == UNION {[1..n -> Chars] : n \in 0..MaxTextLen}

\* the texts of MarkedLen letters with up to two characters replaced
MarkedTexts ==
    {[i \in 1..MarkedLen |-> IF i \in DOMAIN m THEN m[i] ELSE "x"] :
        m \in UNION {[ps -> Chars \ {"x"}] :
                        ps \in {q \in SUBSET (1..MarkedLen) : Cardinality(q) <= 2}}}

\* texts of ScenarioLen letters with ". " put at the first of three positions,
\* at the first two or at all three, each in the last fifth of a window, and
\* possibly a "." amid letters
ScenarioTexts ==
    {[i \in 1..ScenarioLen |->
         IF (i - 1) \in bs \cup ps THEN "."
         ELSE IF (i - 2) \in bs THEN " " ELSE "x"] :
        bs \in {{}, {800}, {800, 1402}, {800, 1402, 2004}}, ps \in SUBSET {900}}

SplitInputs ==
    {[raw |-> t, cfg |-> TextSplitter(cs, ov, mn)] :
        t \in ShortTexts, cs \in 1..MaxChunkSize,
        ov \in 0..MaxChunkSize, mn \in 0..MaxChunkSize}
    \cup {[raw |-> t, cfg |-> TextSplitter(MarkedChunkSize, ov, mn)] :
        t \in MarkedTexts, ov \in {0, MaxChunkSize}, mn \in {0, MaxChunkSize}}
    \cup {[raw |-> t, cfg |-> TextSplitter(CHUNK_SIZE, CHUNK_OVERLAP, MIN_CHUNK_SIZE)] :
        t \in ScenarioTexts}

InitSplit ==
    /\ store = {}
    /\ uuid_counter = 0
    /\ query_cache = LRUCache(QueryCacheMaxsize)
    /\ embedding_cache = LRUCache(EmbeddingCacheMaxsize)
    /\ lru = LRUCache(MaxCacheSize)
    /\ hist = <<>>
    /\ split \in {[raw |-> in.raw, cfg |-> in.cfg, called |-> FALSE,
                    chunks |-> <<>>, windows |-> <<>>] : in \in SplitInputs}
    /\ workers = [w \in Workers |-> Idle]
    /\ last = [op |-> "init", raised |-> "none"]

\* TextSplitter.split_text(text)
SplitText ==
    LET r == split_run(split.raw, split.cfg) IN
    /\ ~split.called
    /\ split' = [split EXCEPT !.called = TRUE, !.chunks = r.chunks,
                              !.windows = r.windows]
    /\ last' = [op |-> "split_text", raised |-> "none"]
    /\ UNCHANGED <<store, uuid_counter, query_cache, embedding_cache, lru, hist,
                   workers>>

NextSplit == SplitText

SpecSplit == InitSplit /\ [][NextSplit]_vars

\* index_document on the file whose text split holds: the chunks are the
\* ones split_text returns for it
IndexSplit ==
    \E overwrite \in BOOLEAN :
        LET run == split_run(split.raw, split.cfg)
            r == index_chunks(store, uuid_counter, "a.pdf", overwrite, run.chunks)
        IN
        /\ uuid_counter < MaxUuid
        /\ store' = r.store
        /\ uuid_counter' = r.uuid_counter
        /\ split' = [split EXCEPT !.called = TRUE, !.chunks = run.chunks,
                                  !.windows = run.windows]
        /\ last' = [op |-> "index_document", overwrite |-> overwrite,
                    raised |-> r.raised, message |-> r.message,
                    before |-> Cardinality(DocsAt(store, "a.pdf"))]
        /\ UNCHANGED <<query_cache, embedding_cache, lru, hist, workers>>

NextIndexSplit == IndexSplit

SpecIndexSplit == InitSplit /\ [][NextIndexSplit]_vars

----------------------------------------------------------------------------
(* Properties.  A property of a call is stated for every call the model    *)
(* can make from a reachable state, through the operator the action        *)
(* applies; `last` tells which call ran last.                              *)

\* C1: when index_document(path, overwrite=True) returns, its document_id
\* is none of the ids drawn before, and the records with file_path = path
\* are exactly the chunks_count new ones, all under the new document_id
C1_OverwriteReplaces ==
    \A file_path \in Paths, env \in Envs :
        LET r == index_document(store, uuid_counter, file_path, TRUE, env)
            now == matching(r.store, "file_path", file_path)
        IN  r.raised = "none" =>
              /\ r.document_id \notin 1..uuid_counter
              /\ \A rec \in store : rec.document_id # r.document_id
              /\ Cardinality(now) = r.chunks_count
              /\ \A rec \in now : rec.document_id = r.document_id

\* an overwrite succeeded on a path that two earlier documents had
C1_Witness ==
    /\ last.op = "index_document"
    /\ last.overwrite
    /\ last.raised = "none"
    /\ last.before >= 2

\* C2: records created by different index_document calls never share a
\* document_id, and records with one document_id have one file_path
C2_DocumentIdentity ==
    \A r1, r2 \in store :
        /\ r1.call # r2.call => r1.document_id # r2.document_id
        /\ r1.document_id = r2.document_id => r1.file_path = r2.file_path

\* index_directory ran, and the store holds a document of two chunks beside
\* a document that another call made for the same path
C2_Witness ==
    /\ last.op = "index_directory"
    /\ \E r1, r2, r3 \in store :
        /\ r1.call # r2.call
        /\ r1.file_path = r2.file_path
        /\ r3.document_id = r1.document_id
        /\ r3.id # r1.id

\* C3: when one document holds all the n records of a path, a
\* delete_document(file_path=path) whose lookup returns or fails over to the
\* count comparison returns deleted_count = n, lowers count() by n and
\* leaves the records of the other paths as they were
C3_DeleteByPath ==
    \A file_path \in Paths, lookup \in {"ok", "Exception"} :
        LET n == Cardinality(matching(store, "file_path", file_path))
            r == delete_document(store, None, file_path, lookup, NoFault)
        IN  (n > 0 /\ Cardinality(DocsAt(store, file_path)) = 1) =>
              /\ r.raised = "none"
              /\ r.deleted_count = n
              /\ Cardinality(r.store) = Cardinality(store) - n
              /\ {rec \in r.store : rec.file_path # file_path}
                   = {rec \in store : rec.file_path # file_path}

\* a delete by file_path removed the two chunks of a document and records
\* of another path remain
C3_Witness ==
    /\ last.op = "delete_document"
    /\ last.given = "file_path"
    /\ last.raised = "none"
    /\ last.deleted_count = 2
    /\ store # {}

\* C4: delete_document with a document_id, or a file_path, that no record
\* carries raises ValueError and leaves the store as it was
C4_DeleteMissing ==
    \A lookup \in Lookups :
        /\ \A document_id \in DocIds :
              matching(store, "document_id", document_id) = {} =>
                LET r == delete_document(store, document_id, NoPath, lookup, NoFault)
                IN  r.raised = "ValueError" /\ r.store = store
        /\ \A file_path \in Paths :
              matching(store, "file_path", file_path) = {} =>
                LET r == delete_document(store, None, file_path, lookup, NoFault)
                IN  r.raised = "ValueError" /\ r.store = store

\* a delete whose lookup failed found nothing to delete in a store that
\* holds records
C4_Witness ==
    /\ last.op = "delete_document"
    /\ last.given = "document_id"
    /\ last.lookup = "Exception"
    /\ last.raised = "ValueError"
    /\ store # {}

\* C5: index_directory returns one result per file with a supported
\* extension that the walk meets
C5_OneResultPerFile ==
    (last.op = "index_directory" /\ last.raised = "none")
        => last.nresults = last.nfiles


\* C6: index_document raises FileNotFoundError for a missing file and
\* ValueError when the converter returns nothing or the chunker no chunk;
\* then, and when encode_chunks raises, the store is as it was
C6_FailureLeavesStore ==
    \A file_path \in Paths, overwrite \in BOOLEAN, env \in Envs :
        LET r == index_document(store, uuid_counter, file_path, overwrite, env) IN
        /\ ~env.exists => r.raised = "FileNotFoundError"
        /\ (env.exists /\ (~env.converted \/ env.nchunks = 0))
              => r.raised = "ValueError"
        /\ (~env.exists \/ ~env.converted \/ env.nchunks = 0 \/ ~env.embed_ok)
              => (r.raised # "none" /\ r.store = store)

\* an overwrite of a path that has records failed in encode_chunks
C6_Witness ==
    /\ last.op = "index_document"
    /\ last.overwrite
    /\ last.message = "encode_chunks raised"
    /\ last.before >= 1

\* C7: delete_document raises ValueError and deletes nothing unless exactly
\* one of document_id and file_path is given
C7_ExactlyOneSelector ==
    (last.op = "delete_document" /\ last.given \in {"both", "neither"})
        => (last.raised = "ValueError" /\ last.deleted_count = 0)

\* C8: after a search the query cache holds an entry under the key of the
\* call's arguments
C8_SearchMemoized ==
    last.op = "search" => last.key \in DOMAIN query_cache.cache

----------------------------------------------------------------------------
(* Properties of the LRUCache *)

\* the position in hist of the latest set, or get that hit, of a key
LastUse(args) ==
    LET uses == {i \in 1..Len(hist) :
                    /\ hist[i].args = args
                    /\ hist[i].raised = "none"
                    /\ \/ hist[i].op = "set"
                       \/ hist[i].op = "get" /\ hist[i].value # NoValue}
    IN  CHOOSE i \in uses : \A j \in uses : j <= i

\* the arguments whose entries the cache holds
Held(c) == {args \in Keys : make_key(args) \in DOMAIN c.cache}

\* the calls of hist without their values
Calls == [i \in 1..Len(hist) |-> <<hist[i].op, hist[i].args>>]

\* set a, set b, get a, set c
Scenario == <<<<"set", "a">>, <<"set", "b">>, <<"get", "a">>, <<"set", "c">>>>

\* C9: with maxsize >= 1, a set of a new key on a full cache evicts exactly
\* the entry whose latest set or get-hit is the oldest; with maxsize = 2,
\* set a, set b, get a, set c leaves a and c and size() = 2
C9_EvictsLeastRecentlyUsed ==
    /\ (lru.maxsize = 2 /\ Calls = Scenario) => (Held(lru) = {"a", "c"} /\ size(lru) = 2)
    /\ \A args \in Keys, value \in Values :
          (lru.maxsize >= 1 /\ args \notin Held(lru) /\ size(lru) = lru.maxsize) =>
            LET r == lru_set(lru, value, args)
                oldest == CHOOSE k \in Held(lru) :
                              \A o \in Held(lru) : LastUse(k) <= LastUse(o)
            IN  /\ r.raised = "none"
                /\ Held(r.c) = (Held(lru) \ {oldest}) \cup {args}
                /\ size(r.c) = lru.maxsize

\* the scenario ran on a cache of maxsize 2
C9_Witness == lru.maxsize = 2 /\ Calls = Scenario

\* C10: 0 <= size() <= maxsize in every state, for every maxsize from 0
C10_SizeWithinMaxsize == 0 <= size(lru) /\ size(lru) <= lru.maxsize

\* a set was made on a cache of maxsize 0, and a full cache took a new key
C10_Witness ==
    \/ /\ lru.maxsize = 0
       /\ \E i \in 1..Len(hist) : hist[i].op = "set"
    \/ /\ lru.maxsize >= 1
       /\ size(lru) = lru.maxsize
       /\ Len(hist) > lru.maxsize
       /\ hist[Len(hist)].op = "set"
       /\ \A i \in 1..(Len(hist) - 1) : hist[i].op = "set" /\ hist[i].args # hist[Len(hist)].args

\* C11: a set of a key the cache holds replaces its value, puts the key last
\* in the access order (most recently used), keeps size() and every other
\* entry, also on a full cache; the next get of the key returns the new value
C11_SetExistingKey ==
    \A args \in Held(lru), value \in Values :
        LET r == lru_set(lru, value, args)
            key == make_key(args)
        IN  /\ r.raised = "none"
            /\ r.c.cache[key] = value
            /\ DOMAIN r.c.cache = DOMAIN lru.cache
            /\ \A k \in DOMAIN lru.cache \ {key} : r.c.cache[k] = lru.cache[k]
            /\ size(r.c) = size(lru)
            /\ r.c.access_order = Append(remove(lru.access_order, key), key)
            /\ Len(r.c.access_order) = size(r.c)
            /\ lru_get(r.c, args).value = value

\* a full cache of maxsize 2 took a second set of its oldest key
C11_Witness ==
    /\ lru.maxsize = 2
    /\ Calls = <<<<"set", "a">>, <<"set", "b">>, <<"set", "a">>>>
    /\ hist[1].value = "v1"
    /\ hist[3].value = "v2"
    /\ lru.cache[make_key("a")] = "v2"
    /\ lru.access_order = <<make_key("b"), make_key("a")>>

\* C12: the results of search are the store's ranked top_k list under the
\* filter, each distance d turned into the score max(0, 1 - d), without the
\* entries scoring below a supplied min_score and in the store's order:
\* scores never increase along the list, at most top_k results come back and
\* total_results is the length of the list
C12_SearchScoring ==
    /\ \A query \in Queries, top_k \in 1..MaxTopK, min_score \in MinScores,
          where \in Paths \cup {NoPath} :
          LET hits == chroma_search(store, query, top_k, where)
              res == search(store, query, top_k, min_score, where)
              want(i) == LET d == Distance(query, hits[i])
                             sc == IF d >= One THEN 0 ELSE One - d
                         IN  [id |-> hits[i].id,
                              document_id |-> hits[i].document_id, score |-> sc]
              kept == {i \in 1..Len(hits) :
                          min_score = NoScore \/ want(i).score >= min_score}
              \* the position in hits of the j-th kept entry
              nth(j) == CHOOSE i \in kept : Cardinality({k \in kept : k <= i}) = j
          IN  /\ Len(res) = Cardinality(kept)
              /\ \A j \in 1..Len(res) : res[j] = want(nth(j))
              /\ \A j \in 1..(Len(res) - 1) : res[j].score >= res[j + 1].score
              /\ Len(res) <= top_k
              /\ (last.op = "search"
                    /\ last.key = make_key(<<query, top_k, min_score, where>>))
                  => last.total_results = Len(res)

\* a search with a min_score returned one of two hits, and the store holds
\* a record that another query ranks second at a distance above 1.0, which
\* makes its score 0
C12_Witness ==
    /\ last.op = "search"
    /\ \E query \in Queries, where \in Paths \cup {NoPath} :
          /\ last.key = make_key(<<query, 2, 4, where>>)
          /\ last.total_results = 1
          /\ Len(chroma_search(store, query, 2, where)) = 2
    /\ \E query \in Queries :
          LET hits == chroma_search(store, query, 2, NoPath) IN
          /\ Len(hits) = 2
          /\ Distance(query, hits[2]) > One
          /\ search(store, query, 2, NoScore, NoPath)[2].score = 0

----------------------------------------------------------------------------
(* Properties of split_text *)

\* the trimmed text split_text works on
Trimmed == strip(split.raw)

\* C13: for a non-empty text, chunk_size >= 1 and chunk_overlap >= 0, the
\* chunks carry chunk_index 0, 1, ..., n-1 in emission order, start_char is
\* at least 0 and never decreases, and no end_char exceeds the length of the
\* trimmed text
C13_ChunkOffsets ==
    split.called =>
        /\ LET len == Len(Trimmed) IN
           \A i \in 1..Len(split.chunks) :
              /\ split.chunks[i].chunk_index = i - 1
              /\ split.chunks[i].start_char >= 0
              /\ split.chunks[i].end_char <= len
        /\ \A i \in 1..(Len(split.chunks) - 1) :
              split.chunks[i].start_char <= split.chunks[i + 1].start_char

\* a text was split into three chunks or more by a splitter whose overlap is
\* not below its chunk_size, or with a window left out for being too short
C13_Witness ==
    /\ split.called
    /\ Len(split.chunks) >= 3
    /\ \/ split.cfg.chunk_overlap >= split.cfg.chunk_size
       \/ Len(split.windows) > Len(split.chunks)
    /\ split.chunks[Len(split.chunks)].end_char = Len(Trimmed)

\* C14: when split_text emits two chunks or more, each chunk after the
\* first starts at or before the end of the chunk emitted before it
C14_ChunksOverlap ==
    split.called =>
        \A i \in 1..(Len(split.chunks) - 1) :
            split.chunks[i + 1].start_char <= split.chunks[i].end_char

\* C15: every chunk has start_char < end_char and char_count equal to
\* end_char - start_char, also when its window starts or ends in whitespace
C15_CharCount ==
    split.called =>
        \A i \in 1..Len(split.chunks) :
            /\ split.chunks[i].start_char < split.chunks[i].end_char
            /\ split.chunks[i].char_count =
                   split.chunks[i].end_char - split.chunks[i].start_char

\* the documented scenario: the default sizes and a text of ScenarioLen
\* characters, trimmed already
InScenario ==
    /\ split.called
    /\ split.cfg = TextSplitter(CHUNK_SIZE, CHUNK_OVERLAP, MIN_CHUNK_SIZE)
    /\ Len(split.raw) = ScenarioLen
    /\ split.raw[1] \notin Whitespace
    /\ split.raw[ScenarioLen] \notin Whitespace

\* C16 as claimed: in the scenario, wherever the sentence boundaries are,
\* exactly 3 chunks come out, with chunk_index 0, 1, 2, consecutive chunks
\* overlapping
C16_ThreeChunks ==
    InScenario =>
        /\ Len(split.chunks) = 3
        /\ \A i \in 1..Len(split.chunks) : split.chunks[i].chunk_index = i - 1
        /\ \A i \in 1..(Len(split.chunks) - 1) :
              split.chunks[i + 1].start_char < split.chunks[i].end_char

\* C16 amended: in the scenario, a text without whitespace (hence without a
\* sentence boundary) gives exactly the 3 chunks [0, chunk_size),
\* [800, 1800), [1600, end of text), with chunk_index 0, 1, 2, consecutive
\* chunks sharing chunk_overlap characters
C16_ThreeChunksNoWhitespace ==
    (InScenario /\ \A i \in 1..ScenarioLen : split.raw[i] \notin Whitespace) =>
        LET step == CHUNK_SIZE - CHUNK_OVERLAP IN
        /\ Len(split.chunks) = 3
        /\ \A i \in 1..3 :
              /\ split.chunks[i].chunk_index = i - 1
              /\ split.chunks[i].start_char = (i - 1) * step
              /\ split.chunks[i].end_char =
                     Min((i - 1) * step + CHUNK_SIZE, ScenarioLen)
              /\ split.chunks[i].text =
                     slice(split.raw, split.chunks[i].start_char,
                           split.chunks[i].end_char)

\* the scenario ran on a text that has punctuation but no whitespace
C16_Witness ==
    /\ InScenario
    /\ \A i \in 1..ScenarioLen : split.raw[i] \notin Whitespace
    /\ \E i \in 1..ScenarioLen : split.raw[i] \in Punct
    /\ Len(split.chunks) = 3

----------------------------------------------------------------------------
(* Properties of the listings of the collection *)

\* C17: get_unique_documents returns one entry per distinct non-empty
\* document_id of the stored records; the entry's chunk_ids are the ids of
\* the records with that document_id, chunks_count is their number, and a
\* record without a document_id is in no entry
C17_UniqueDocuments ==
    LET res == get_unique_documents(store)
        all == listed(store)
    IN  /\ \A i, j \in 1..Len(res) :
              res[i].document_id = res[j].document_id => i = j
        /\ {res[i].document_id : i \in 1..Len(res)}
              = {r.document_id : r \in store} \ {None}
        /\ \A i \in 1..Len(res) :
              LET mine == SelectSeq(all, LAMBDA r : r.document_id = res[i].document_id)
              IN  /\ res[i].chunk_ids = [k \in 1..Len(mine) |-> mine[k].id]
                  /\ res[i].chunks_count = Len(res[i].chunk_ids)
                  /\ res[i].chunks_count
                        = Cardinality({r \in store : r.document_id = res[i].document_id})
        /\ \A r \in store : r.document_id = None =>
              \A i \in 1..Len(res) : \A k \in 1..Len(res[i].chunk_ids) :
                  res[i].chunk_ids[k] # r.id
        /\ last.op = "get_unique_documents" => last.result = res

\* get_unique_documents ran on a collection that holds a record without a
\* document_id and two documents, one of them in two chunks
C17_Witness ==
    /\ last.op = "get_unique_documents"
    /\ \E r \in store : r.document_id = None
    /\ Len(last.result) = 2
    /\ \E i \in 1..2 : last.result[i].chunks_count = 2

\* C18: without a filter, get_all_documents(limit=L, offset=O) with L >= 0
\* and O >= 0 returns the records at positions O .. O+L-1 of the listing
\* (from O to the end when no limit is given), so never more than L, with
\* ids, documents and metadatas cut alike
C18_Pagination ==
    (/\ last.op = "get_all_documents"
     /\ last.where = NoPath
     /\ last.offset # NoLimit) =>
        LET all == results_of(listed(store))
            end == IF last.limit = NoLimit THEN Len(all.ids)
                   ELSE last.offset + last.limit
        IN  /\ last.raised = "none"
            /\ last.ids = pyslice(all.ids, last.offset, end)
            /\ last.documents = pyslice(all.documents, last.offset, end)
            /\ last.metadatas = pyslice(all.metadatas, last.offset, end)
            /\ last.limit # NoLimit => Len(last.ids) <= last.limit

----------------------------------------------------------------------------
(* Properties of clear_cache *)

\* C19: a clear_cache call leaves the query cache empty, so that every get
\* misses until the next put, and changes nothing else: the records of the
\* collection and the embedding cache stay as they were
C19_ClearCacheFrame ==
    [][last'.op = "clear_cache" =>
          /\ size(query_cache') = 0
          /\ query_cache'.access_order = <<>>
          /\ \A query \in Queries :
                lru_get(query_cache', <<query, <<>>, <<>>>>).value = NoValue
          /\ store' = store
          /\ embedding_cache' = embedding_cache
          /\ uuid_counter' = uuid_counter]_vars

\* clear_cache ran on a query cache that held entries, beside a collection
\* and an embedding cache that hold some too
C19_Witness ==
    /\ last.op = "clear_cache"
    /\ last.before >= 1
    /\ size(query_cache) = 0
    /\ store # {}
    /\ size(embedding_cache) >= 1

----------------------------------------------------------------------------
(* Properties of concurrent index_document calls *)

\* C20: index_document(path, overwrite=True) is not atomic: its delete step
\* leaves a state, before its add step, in which no record has the path as
\* file_path, and which a search running then observes; when the add step
\* fails the call raises and puts nothing back, so the records it deleted
\* stay deleted
C20_OverwriteNotAtomic ==
    [][\A w \in Workers :
          /\ (workers[w].pc = "prepared" /\ workers'[w].pc = "deleted") =>
                /\ matching(store', "file_path", workers[w].file_path) = {}
                /\ \A query \in Queries :
                      search(store', query, MaxTopK, NoScore, workers[w].file_path) = <<>>
                /\ count(store', FALSE) = count(store, FALSE) - workers'[w].removed
          /\ (workers[w].pc = "deleted" /\ workers'[w].pc = "idle"
                 /\ ~workers[w].add_ok) =>
                /\ last'.raised = "Exception"
                /\ store' = store]_vars

\* a worker has deleted the records of its path and not added the new ones
\* yet, and a search filtered to that path has just returned nothing
C20_Witness ==
    \E w \in Workers :
        /\ workers[w].pc = "deleted"
        /\ workers[w].removed >= 1
        /\ last.op = "search"
        /\ last.where = workers[w].file_path
        /\ last.total_results = 0
        /\ \A o \in Workers \ {w} : workers[o].pc = "idle"

----------------------------------------------------------------------------
(* Properties of concurrent overwrites of one path *)

\* C21: two concurrent index_document(path, overwrite=True) calls are not
\* serialized: the add step of a call that has already deleted removes
\* nothing, so the records another call inserted for the same path since
\* that delete stay live beside its own, and the call returns success; the
\* order delete, delete, insert, insert thus ends with two document_ids
\* live for the path
C21_OverwritesInterleave ==
    [][\A w \in Workers :
          (workers[w].pc = "deleted" /\ workers'[w].pc = "idle"
              /\ workers[w].add_ok) =>
                /\ last'.raised = "none"
                /\ store' = store \cup workers[w].records
                /\ DocsAt(store', workers[w].file_path) =
                      DocsAt(store, workers[w].file_path)
                          \cup {workers[w].document_id}]_vars

\* both overwrites of one path have returned success, the second insert
\* being the last step, and the path has records of two document_ids
C21_Witness ==
    /\ \A w \in Workers : workers[w].pc = "idle"
    /\ last.op = "index_document"
    /\ last.step = "add"
    /\ last.raised = "none"
    /\ \E file_path \in Paths : Cardinality(DocsAt(store, file_path)) = 2

----------------------------------------------------------------------------
(* Properties of concurrent delete_document calls *)

\* C22: a delete_document call that returns success carries a deleted_count
\* of at least 1 that equals the number of records its own delete removed,
\* whatever other delete_document and index_document calls ran between its
\* steps
C22_SuccessCountsOwnRemovals ==
    (last.op = "delete_document" /\ last.step = "return"
        /\ last.raised = "none") =>
        /\ last.deleted_count >= 1
        /\ last.deleted_count = last.removed

----------------------------------------------------------------------------
(* Properties of delete_document when its existence lookup fails *)

\* C23: when the existence lookup of delete_document raises, whatever the
\* exception, the delete is still issued, and the call raises not-found
\* exactly when count() is the same before and after and returns success
\* otherwise
C23_LookupFailureFallsBack ==
    \A document_id \in DocIds \cup {None}, file_path \in Paths \cup {NoPath},
       lookup \in Lookups \ {"ok"} :
        (document_id # None \/ file_path # NoPath) =>
            LET key == IF document_id # None THEN "document_id" ELSE "file_path"
                value == IF document_id # None THEN document_id ELSE file_path
                r == delete_document(store, document_id, file_path, lookup, NoFault)
            IN  /\ r.store = delete_where(store, key, value)
                /\ (r.raised = "ValueError") <=>
                      (count(r.store, FALSE) = count(store, FALSE))
                /\ (r.raised = "none") <=>
                      (count(r.store, FALSE) # count(store, FALSE))

----------------------------------------------------------------------------
(* Properties of unsynchronized calls on one LRUCache *)

\* every call made so far ran from its first statement to its last with no
\* other call in progress, and none is in progress now
Exclusive == Busy = {} /\ \A i \in 1..Len(hist) : hist[i].alone

\* the keys on the recency list
OrderKeys(c) == {c.access_order[i] : i \in 1..Len(c.access_order)}

\* some completed set raised IndexError at access_order.pop(0)
PutFailedOnEmptyList ==
    \E i \in 1..Len(hist) : hist[i].op = "set" /\ hist[i].raised = "IndexError"

\* C24, as claimed for every LRUCache: when each get, set and clear ran
\* alone, size() is within maxsize, the keys of the dict are the keys of the
\* recency list, and no set failed on an empty recency list
C24_AtomicCallsKeepCache ==
    Exclusive =>
        /\ size(lru) <= lru.maxsize
        /\ DOMAIN lru.cache = OrderKeys(lru)
        /\ ~PutFailedOnEmptyList

\* C24: on an LRUCache of maxsize >= 1, when each get, set and clear ran
\* alone, size() is within maxsize, the keys of the dict are the keys of the
\* recency list, no key is twice on the list and no call raised; the states
\* that break this are reached only through calls whose statements
\* interleaved
C24_AtomicCallsKeepCacheFromOne ==
    (Exclusive /\ lru.maxsize >= 1) =>
        /\ size(lru) <= lru.maxsize
        /\ DOMAIN lru.cache = OrderKeys(lru)
        /\ Len(lru.access_order) = size(lru)
        /\ \A i \in 1..Len(hist) : hist[i].raised = "none"

\* calls whose statements interleaved have left a cache of maxsize >= 1
\* holding more than maxsize entries, with keys that are not those of the
\* recency list, after a set failed on an empty recency list
C24_Witness ==
    /\ Busy = {}
    /\ lru.maxsize >= 1
    /\ size(lru) > lru.maxsize
    /\ DOMAIN lru.cache # OrderKeys(lru)
    /\ PutFailedOnEmptyList

----------------------------------------------------------------------------
(* Properties of the loop of split_text *)

\* C25: for chunk_size >= 1 and chunk_overlap >= 0, chunk_overlap >=
\* chunk_size included, the loop of split_text ends: every iteration starts
\* where the one before left the cursor, ends its window past the cursor,
\* leaves the cursor at max(cursor + 1, end - chunk_overlap), which is past
\* where it was, and the last iteration leaves it at the end of the text,
\* after no more iterations than the text has characters
C25_CursorAdvances ==
    split.called =>
        LET len == Len(Trimmed)
            n == Len(split.windows)
        IN  /\ n <= len
            /\ \A i \in 1..n :
                  LET w == split.windows[i] IN
                  /\ w.current_pos = IF i = 1 THEN 0 ELSE split.windows[i - 1].moved
                  /\ w.current_pos < len
                  /\ w.end_pos > w.current_pos
                  /\ w.end_pos <= len
                  /\ w.moved = Max(w.current_pos + 1,
                                   w.end_pos - split.cfg.chunk_overlap)
                  /\ w.moved > w.current_pos
            /\ n >= 1 => split.windows[n].moved >= len
            /\ (len > split.cfg.chunk_size) => n >= 1

\* the loop ran three iterations or more with chunk_overlap >= chunk_size
\* and the cursor went on by one in one of them
C25_Witness ==
    /\ split.called
    /\ split.cfg.chunk_overlap >= split.cfg.chunk_size
    /\ Len(split.windows) >= 3
    /\ \E i \in 1..Len(split.windows) :
          /\ split.windows[i].moved = split.windows[i].current_pos + 1
          /\ split.windows[i].end_pos > split.windows[i].moved

\* C26: with the default sizes (1000, 200, 500) and a text longer than
\* chunk_size, every character position of the trimmed text lies in
\* [start_char, end_char) of a chunk split_text emits
C26_NoTextLost ==
    (split.called
        /\ split.cfg = TextSplitter(CHUNK_SIZE, CHUNK_OVERLAP, MIN_CHUNK_SIZE)) =>
        LET len == Len(Trimmed) IN
        len > CHUNK_SIZE =>
            \A p \in 0..(len - 1) :
                \E i \in 1..Len(split.chunks) :
                    /\ split.chunks[i].start_char <= p
                    /\ p < split.chunks[i].end_char

----------------------------------------------------------------------------
(* Properties of search after the store has changed *)

\* the ids a search returns
HitIds(res) == {res[i].id : i \in 1..Len(res)}

\* the records a successful delete_document step removed
Removed == store \ store'

----------------------------------------------------------------------------
(* Properties of index_document without overwrite *)

\* C28: index_document(path, overwrite=False) removes and changes no record,
\* whatever its outcome; when it succeeds count() grows by exactly the
\* chunks_count it returns, and on a path that was indexed already the
\* earlier document_ids stay beside the new one, so at least two
\* document_ids share the file_path
C28_NoOverwriteKeepsRecords ==
    \A file_path \in Paths, env \in Envs :
        LET r == index_document(store, uuid_counter, file_path, FALSE, env) IN
        /\ store \subseteq r.store
        /\ r.raised # "none" => r.store = store
        /\ r.raised = "none" =>
              /\ count(r.store, FALSE) = count(store, FALSE) + r.chunks_count
              /\ r.chunks_count >= 1
              /\ DocsAt(r.store, file_path) =
                    DocsAt(store, file_path) \cup {r.document_id}
              /\ r.document_id \notin DocsAt(store, file_path)
              /\ DocsAt(store, file_path) # {} =>
                    Cardinality(DocsAt(r.store, file_path)) >= 2

\* an index_document without overwrite has succeeded on a path that had
\* records, and two document_ids have records with one file_path
C28_Witness ==
    /\ last.op = "index_document"
    /\ ~last.overwrite
    /\ last.raised = "none"
    /\ last.before >= 1
    /\ \E file_path \in Paths : Cardinality(DocsAt(store, file_path)) >= 2

----------------------------------------------------------------------------
(* Properties of the record ids *)

\* C29: every record index_document has written carries the id made of its
\* own document_id and its own chunk_index, the position split_text's list
\* gives a chunk being the chunk_index split_text gave it, and no two
\* records of the store have the same id
C29_RecordIds ==
    /\ \A r \in store : r.id = <<r.document_id, "_chunk_", r.chunk_index>>
    /\ \A r1, r2 \in store : r1.id = r2.id => r1 = r2
    /\ \A i \in 1..Len(split.chunks) : split.chunks[i].chunk_index = i - 1

\* two documents of the one file are in the store, and split_text left out a
\* window before the last chunk it emitted
C29_Witness ==
    /\ Cardinality(DocsAt(store, "a.pdf")) >= 2
    /\ Len(split.chunks) >= 2
    /\ \E i \in 1..Len(split.windows) :
          /\ split.windows[i].current_pos
                < split.chunks[Len(split.chunks)].start_char
          /\ \A k \in 1..Len(split.chunks) :
                split.chunks[k].start_char # split.windows[i].current_pos

----------------------------------------------------------------------------
(* Properties of the order of the chunks *)

\* C30: for chunk_size >= 1, 0 <= chunk_overlap < chunk_size and
\* min_chunk_size >= 0, start_char and end_char both grow strictly from
\* each emitted chunk to the next, so at most one chunk ends at the end of
\* the text
C30_OffsetsStrictlyIncrease ==
    (split.called /\ split.cfg.chunk_overlap < split.cfg.chunk_size) =>
        /\ \A i \in 1..(Len(split.chunks) - 1) :
              /\ split.chunks[i].start_char < split.chunks[i + 1].start_char
              /\ split.chunks[i].end_char < split.chunks[i + 1].end_char
        /\ Cardinality({i \in 1..Len(split.chunks) :
                           split.chunks[i].end_char = Len(Trimmed)}) <= 1

====
